---- MODULE Spec2Model ----
(***************************************************************************)
(* Model of scripts/fetch_metagraph.py: the one-shot exporter that fetches *)
(* the metagraph of subnet 71 and prints one JSON snapshot.                *)
(*                                                                         *)
(* Representation.  Floats are integers in thousandths (1.0 is 1000).      *)
(* A Python dict is a function with a finite domain.  The JSON value null  *)
(* is the empty sequence << >> and a JSON string s is <<s>>, in the        *)
(* "error" field only.  Standard output is the sequence of the documents   *)
(* whose text, or a first part of it, was written to it; a document is     *)
(* complete when the print that wrote it returned.                         *)
(***************************************************************************)
EXTENDS Integers, Sequences, FiniteSets, TLC

VARIABLES
    pc,             \* the statement the process is at
    metagraph,      \* line 14
    hotkey_to_uid, uid_to_hotkey, incentives, emissions, stakes, is_validator,
    n_neurons,      \* line 23
    uid,            \* line 25: the next uid of range(n_neurons)
    e,              \* line 86: the exception caught, and the step that raised it
    stdout,         \* the documents written to standard output
    exit,           \* the exit status, "running" until the process ends
    calls,          \* the calls made to the bittensor client
    run,            \* 1 for the first invocation, 2 for a repeated one
    io,             \* what the environment answered in this invocation
    replay,         \* what it answered in the first invocation
    firstStdout     \* standard output of the first invocation

vars == <<pc, metagraph, hotkey_to_uid, uid_to_hotkey, incentives, emissions,
          stakes, is_validator, n_neurons, uid, e, stdout, exit, calls, run,
          io, replay, firstStdout>>

dicts == <<hotkey_to_uid, uid_to_hotkey, incentives, emissions, stakes, is_validator>>

\* Largest participant count and longest registry array the model explores.
MaxN == 2

netuid == 71

network == "finney"

Hotkeys == {"5Abc", "5Xyz"}

Metrics == {"incentive", "emission", "stake", "validator"}

Fields == {"incentive", "I", "emission", "E", "alpha_stake", "stake", "S",
           "validator_permit"}

\* The attribute names one metric's extraction probes.
ChainFields(m) ==
    CASE m = "incentive" -> {"incentive", "I"}
      [] m = "emission"  -> {"emission", "E"}
      [] m = "stake"     -> {"alpha_stake", "stake", "S"}
      [] m = "validator" -> {"validator_permit"}

(***************************************************************************)
(* The registry snapshot returned by subtensor.metagraph(netuid).          *)
(* An element of a registry array is [kind, val]:                          *)
(*   "tensor"  a scalar wrapper with .item(); val is what .item() returns  *)
(*             (thousandths for a float tensor, 0/1 for a bool tensor);    *)
(*   "float"   a Python float, val in thousandths;                         *)
(*   "int"     a Python int, val in units;                                 *)
(*   "str"     the non-numeric string 'n/a' (val unused).                  *)
(* An attribute of the metagraph is absent or holds one of a few arrays:   *)
(*   "full"   MaxN well-formed elements;                                   *)
(*   "short"  only the first MaxN - 1 of them;                             *)
(*   "bad"    the full array with 'n/a' as its last element;               *)
(*   "wide"   MaxN floats above 1.0 (an un-normalised incentive).          *)
(***************************************************************************)
Cycle(seq, i) == seq[((i - 1) % Len(seq)) + 1]

\* The value of element i (1-based) of a well-formed array, in thousandths.
FieldValue(f, i) ==
    CASE f = "incentive"        -> Cycle(<<0, 1000, 500, 250>>, i)
      [] f = "I"                -> Cycle(<<1000, 0, 750, 125>>, i)
      [] f = "emission"         -> 3000 * i
      [] f = "E"                -> 3000 * i + 100
      [] f = "alpha_stake"      -> 7000 * i
      [] f = "stake"            -> 7000 * i + 200
      [] f = "S"                -> 7000 * i + 300

FieldElem(f, i) ==
    IF f = "validator_permit"
    THEN [kind |-> Cycle(<<"tensor", "int", "int", "tensor">>, i),
          val  |-> Cycle(<<1, 0, 2, 0>>, i)]
    ELSE LET v == FieldValue(f, i)
         IN  IF i % 2 = 1 THEN [kind |-> "tensor", val |-> v]
             ELSE IF v % 1000 = 0 THEN [kind |-> "int", val |-> v \div 1000]
             ELSE [kind |-> "float", val |-> v]

NotANumber == [kind |-> "str", val |-> 0]

Arr(f, variant) ==
    CASE variant = "full"  -> [i \in 1..MaxN |-> FieldElem(f, i)]
      [] variant = "short" -> [i \in 1..(MaxN - 1) |-> FieldElem(f, i)]
      [] variant = "bad"   -> [i \in 1..MaxN |->
                                 IF i = MaxN THEN NotANumber ELSE FieldElem(f, i)]
      [] variant = "wide"  -> [i \in 1..MaxN |->
                                 [kind |-> "float", val |-> 1000 + 500 * i]]

VariantsOf(f) ==
    {"absent", "full", "short", "bad"}
        \cup (IF f \in ChainFields("incentive") THEN {"wide"} ELSE {})

\* One metric's chain takes every configuration while the other three
\* metrics' attributes are all absent or all complete.
FieldConfigs ==
    UNION {
      { [f \in Fields |-> IF f \in ChainFields(m) THEN c[f] ELSE rest] :
          c \in { d \in [ChainFields(m) -> {"absent", "full", "short", "bad", "wide"}] :
                    \A f \in ChainFields(m) : d[f] \in VariantsOf(f) },
          rest \in {"absent", "full"} }
      : m \in Metrics }

\* metagraph.n: a Python int, a tensor, a float or a non-numeric string.
NScalars ==
    {[kind |-> "int", val |-> v] : v \in -1..MaxN}
        \cup {[kind |-> "tensor", val |-> v] : v \in 0..MaxN}
        \cup {[kind |-> "float", val |-> v] : v \in {-500, 1000 * MaxN + 500}}
        \cup {NotANumber}

HotkeyLists == UNION {[1..k -> Hotkeys] : k \in 0..MaxN}

Metagraphs == [n : NScalars, hotkeys : HotkeyLists, fields : FieldConfigs]

\* The value of the name metagraph before line 14 binds it.
NoMetagraph ==
    [n |-> [kind |-> "int", val |-> 0], hotkeys |-> << >>,
     fields |-> [f \in Fields |-> "absent"]]

hasattr(mg, f) == mg.fields[f] # "absent"

(***************************************************************************)
(* Python values and conversions.                                          *)
(***************************************************************************)
Ok(v) == [ok |-> TRUE, val |-> v, msg |-> ""]

Raise(m) == [ok |-> FALSE, val |-> 0, msg |-> m]

EmptyDict == [k \in {} |-> 0]

\* d[k] = v
Put(d, k, v) == [x \in (DOMAIN d) \cup {k} |-> IF x = k THEN v ELSE d[x]]

\* seq[uid] for a 0-based uid >= 0
GetItem(seq, i) ==
    IF i + 1 \in DOMAIN seq THEN Ok(seq[i + 1]) ELSE Raise("list index out of range")

\* int(x) truncates a float toward zero
Trunc(v) == IF v >= 0 THEN v \div 1000 ELSE -((-v) \div 1000)

\* A tensor's value scaled to a percentage.
ToFloatPercent(x) ==
    CASE x.kind = "tensor" -> Ok(100 * x.val)
      [] x.kind = "float"  -> Ok(x.val)
      [] x.kind = "int"    -> Ok(1000 * x.val)
      [] x.kind = "str"    -> Raise("could not convert string to float: 'n/a'")

\* x.item() if hasattr(x, 'item') else float(x)
ToFloat(x) ==
    CASE x.kind = "tensor" -> Ok(x.val)
      [] x.kind = "float"  -> Ok(x.val)
      [] x.kind = "int"    -> Ok(1000 * x.val)
      [] x.kind = "str"    -> Raise("could not convert string to float: 'n/a'")

\* x.item() if hasattr(x, 'item') else bool(x)
ToBool(x) ==
    CASE x.kind = "tensor" -> Ok(x.val # 0)
      [] x.kind = "float"  -> Ok(x.val # 0)
      [] x.kind = "int"    -> Ok(x.val # 0)
      [] x.kind = "str"    -> Ok(TRUE)

\* line 23
CountNeurons(n) ==
    CASE n.kind = "int"    -> Ok(n.val)
      [] n.kind = "tensor" -> Ok(n.val)
      [] n.kind = "float"  -> Ok(Trunc(n.val))
      [] n.kind = "str"    -> Raise("invalid literal for int() with base 10: 'n/a'")

\* metagraph.<f>[uid] coerced to a float
ExtractFloat(mg, f, u) ==
    LET elem == GetItem(Arr(f, mg.fields[f]), u)
    IN  IF elem.ok THEN ToFloat(elem.val) ELSE elem

\* metagraph.<f>[uid] coerced to a bool
ExtractBool(mg, f, u) ==
    LET elem == GetItem(Arr(f, mg.fields[f]), u)
    IN  IF elem.ok THEN ToBool(elem.val) ELSE elem

\* The incentive chain falling back to I when incentive has no element uid.
IncentiveValFallsBack(mg, u) ==
    LET first == ExtractFloat(mg, "incentive", u)
    IN  IF hasattr(mg, "incentive") /\ first.ok THEN first
        ELSE IF hasattr(mg, "I") THEN ExtractFloat(mg, "I", u)
        ELSE IF hasattr(mg, "incentive") THEN first
        ELSE Ok(0)

\* lines 31-38
IncentiveVal(mg, u) ==
    IF hasattr(mg, "incentive") THEN ExtractFloat(mg, "incentive", u)
    ELSE IF hasattr(mg, "I") THEN ExtractFloat(mg, "I", u)
    ELSE Ok(0)

\* lines 42-49
EmissionVal(mg, u) ==
    IF hasattr(mg, "emission") THEN ExtractFloat(mg, "emission", u)
    ELSE IF hasattr(mg, "E") THEN ExtractFloat(mg, "E", u)
    ELSE Ok(0)

\* The stake chain probed in the order S, stake, alpha_stake.
StakeValLegacyFirst(mg, u) ==
    IF hasattr(mg, "S") THEN ExtractFloat(mg, "S", u)
    ELSE IF hasattr(mg, "stake") THEN ExtractFloat(mg, "stake", u)
    ELSE IF hasattr(mg, "alpha_stake") THEN ExtractFloat(mg, "alpha_stake", u)
    ELSE Ok(0)

\* lines 53-63
StakeVal(mg, u) ==
    IF hasattr(mg, "alpha_stake") THEN ExtractFloat(mg, "alpha_stake", u)
    ELSE IF hasattr(mg, "stake") THEN ExtractFloat(mg, "stake", u)
    ELSE IF hasattr(mg, "S") THEN ExtractFloat(mg, "S", u)
    ELSE Ok(0)

\* lines 67-71
ValidatorVal(mg, u) ==
    IF hasattr(mg, "validator_permit") THEN ExtractBool(mg, "validator_permit", u)
    ELSE Ok(FALSE)

(***************************************************************************)
(* JSON output.                                                            *)
(***************************************************************************)
Digits == <<"0", "1", "2", "3", "4", "5", "6", "7", "8", "9">>

\* json.dumps writes an int dict key as its decimal string (uids are < 10 here).
JsonKey(u) == Digits[u + 1]

JsonIntKeys(d) ==
    [s \in {JsonKey(u) : u \in DOMAIN d} |->
        d[CHOOSE u \in DOMAIN d : JsonKey(u) = s]]

\* json.dumps(result): the parsed form of the text it returns.
JsonDumps(result) == [result EXCEPT !.uidToHotkey = JsonIntKeys(@)]

\* str(e)
StrOf(exc) == exc.msg

\* totalNeurons taken from the length of the registry's hotkey list.
SuccessResultListLength(h2u, u2h, inc, emi, stk, isv, n) ==
    [hotkeyToUid |-> h2u, uidToHotkey |-> u2h, incentives |-> inc,
     emissions |-> emi, stakes |-> stk, isValidator |-> isv,
     totalNeurons |-> Len(metagraph.hotkeys), error |-> << >>]

\* totalNeurons accumulated over the invocations.
SuccessResultAccumulated(h2u, u2h, inc, emi, stk, isv, n) ==
    [hotkeyToUid |-> h2u, uidToHotkey |-> u2h, incentives |-> inc,
     emissions |-> emi, stakes |-> stk, isValidator |-> isv,
     totalNeurons |-> n * run, error |-> << >>]

\* lines 74-83
SuccessResult(h2u, u2h, inc, emi, stk, isv, n) ==
    [hotkeyToUid |-> h2u, uidToHotkey |-> u2h, incentives |-> inc,
     emissions |-> emi, stakes |-> stk, isValidator |-> isv,
     totalNeurons |-> n, error |-> << >>]

\* The handler reusing the dicts the loop had filled when the exception came.
FailureResultKeepsEntries(exc) ==
    [hotkeyToUid |-> hotkey_to_uid, uidToHotkey |-> uid_to_hotkey,
     incentives |-> incentives, emissions |-> emissions, stakes |-> stakes,
     isValidator |-> is_validator, totalNeurons |-> 0, error |-> <<StrOf(exc)>>]

\* lines 87-96
FailureResult(exc) ==
    [hotkeyToUid |-> EmptyDict, uidToHotkey |-> EmptyDict, incentives |-> EmptyDict,
     emissions |-> EmptyDict, stakes |-> EmptyDict, isValidator |-> EmptyDict,
     totalNeurons |-> 0, error |-> <<StrOf(exc)>>]

\* What a call of print(text) can do: write the text and the newline and
\* return; raise before anything was written; raise after the text, or a
\* first part of it, was written (a full non-blocking pipe, a failing flush).
PrintOutcomes == {"ok", "raise_before", "raise_after"}

\* Standard output after print(doc) ended with outcome o.
Written(out, doc, o) ==
    CASE o = "ok"           -> Append(out, [doc |-> doc, complete |-> TRUE])
      [] o = "raise_after"  -> Append(out, [doc |-> doc, complete |-> FALSE])
      [] o = "raise_before" -> out

(***************************************************************************)
(* The body of the uid loop, lines 26-72, on the six dicts.  An exception  *)
(* leaves the writes made before it in place.                              *)
(***************************************************************************)
Failed(d, m) == [d EXCEPT !.raised = TRUE, !.msg = m]

\* The uid recorded 1-based in hotkey_to_uid.
RecordHotkeyOneBased(d, hotkey, u) ==
    [d EXCEPT !.hotkey_to_uid = Put(@, hotkey, u + 1),
              !.uid_to_hotkey = Put(@, u, hotkey)]

\* lines 27-28
RecordHotkey(d, hotkey, u) ==
    [d EXCEPT !.hotkey_to_uid = Put(@, hotkey, u),
              !.uid_to_hotkey = Put(@, u, hotkey)]

\* lines 66-72
ValidatorStep(mg, u, hotkey, d) ==
    LET v == ValidatorVal(mg, u)
    IN  IF v.ok THEN [d EXCEPT !.is_validator = Put(@, hotkey, v.val)]
        ELSE Failed(d, v.msg)

\* lines 52-64
StakeStep(mg, u, hotkey, d) ==
    LET v == StakeVal(mg, u)
    IN  IF v.ok THEN ValidatorStep(mg, u, hotkey, [d EXCEPT !.stakes = Put(@, hotkey, v.val)])
        ELSE Failed(d, v.msg)

\* lines 41-50
EmissionStep(mg, u, hotkey, d) ==
    LET v == EmissionVal(mg, u)
    IN  IF v.ok THEN StakeStep(mg, u, hotkey, [d EXCEPT !.emissions = Put(@, hotkey, v.val)])
        ELSE Failed(d, v.msg)

\* The incentive stored only when it is not zero.
IncentiveStepSkipsZero(mg, u, hotkey, d) ==
    LET v == IncentiveVal(mg, u)
    IN  IF v.ok
        THEN EmissionStep(mg, u, hotkey,
                          IF v.val = 0 THEN d ELSE [d EXCEPT !.incentives = Put(@, hotkey, v.val)])
        ELSE Failed(d, v.msg)

\* lines 30-39
IncentiveStep(mg, u, hotkey, d) ==
    LET v == IncentiveVal(mg, u)
    IN  IF v.ok THEN EmissionStep(mg, u, hotkey, [d EXCEPT !.incentives = Put(@, hotkey, v.val)])
        ELSE Failed(d, v.msg)

\* lines 26-72
LoopBody(mg, u, d) ==
    LET hk == GetItem(mg.hotkeys, u)
    IN  IF hk.ok THEN IncentiveStep(mg, u, hk.val, RecordHotkey(d, hk.val, u))
        ELSE Failed(d, hk.msg)

(***************************************************************************)
(* The process.                                                            *)
(***************************************************************************)
NoException == [at |-> "none", msg |-> ""]

NoAnswers ==
    [import |-> "none", connect |-> "none", fetch |-> "none",
     metagraph |-> NoMetagraph, prints |-> << >>]

\* The environment's answer: free in the first invocation, repeated in the second.
Answers(key, all) ==
    IF run = 2 /\ replay[key] \in all THEN {replay[key]} ELSE all

PrintAnswers ==
    LET k == Len(io.prints) + 1
    IN  IF run = 2 /\ k <= Len(replay.prints) THEN {replay.prints[k]} ELSE PrintOutcomes

Outcomes == {"ok", "raise"}

Start ==
    /\ pc = "import"
    /\ metagraph = NoMetagraph
    /\ hotkey_to_uid = EmptyDict
    /\ uid_to_hotkey = EmptyDict
    /\ incentives = EmptyDict
    /\ emissions = EmptyDict
    /\ stakes = EmptyDict
    /\ is_validator = EmptyDict
    /\ n_neurons = 0
    /\ uid = 0
    /\ e = NoException
    /\ stdout = << >>
    /\ exit = "running"
    /\ calls = << >>
    /\ io = NoAnswers

Init ==
    /\ Start
    /\ run = 1
    /\ replay = NoAnswers
    /\ firstStdout = << >>

\* line 8
ImportBittensor ==
    /\ pc = "import"
    /\ \E o \in Answers("import", Outcomes) :
         /\ io' = [io EXCEPT !.import = o]
         /\ IF o = "ok"
            THEN pc' = "connect" /\ e' = e
            ELSE pc' = "except" /\ e' = [at |-> "import", msg |-> "No module named 'bittensor'"]
    /\ UNCHANGED <<metagraph, dicts, n_neurons, uid, stdout, exit, calls, run,
                   replay, firstStdout>>

\* lines 10-13
Connect ==
    /\ pc = "connect"
    /\ calls' = Append(calls, <<"Subtensor", network>>)
    /\ \E o \in Answers("connect", Outcomes) :
         /\ io' = [io EXCEPT !.connect = o]
         /\ IF o = "ok"
            THEN pc' = "fetch" /\ e' = e
            ELSE pc' = "except" /\ e' = [at |-> "connect", msg |-> "ConnectionRefused"]
    /\ UNCHANGED <<metagraph, dicts, n_neurons, uid, stdout, exit, run, replay,
                   firstStdout>>

\* line 14
FetchMetagraph ==
    /\ pc = "fetch"
    /\ calls' = Append(calls, <<"metagraph", netuid>>)
    /\ \E o \in Answers("fetch", Outcomes) :
         IF o = "ok"
         THEN \E mg \in Answers("metagraph", Metagraphs) :
                /\ metagraph' = mg
                /\ io' = [io EXCEPT !.fetch = o, !.metagraph = mg]
                /\ pc' = "count"
                /\ e' = e
         ELSE /\ metagraph' = metagraph
              /\ io' = [io EXCEPT !.fetch = o]
              /\ pc' = "except"
              /\ e' = [at |-> "fetch", msg |-> "SubnetNotExists"]
    /\ UNCHANGED <<dicts, n_neurons, uid, stdout, exit, run, replay, firstStdout>>

\* lines 16-23
Count ==
    /\ pc = "count"
    /\ LET n == CountNeurons(metagraph.n)
       IN  IF n.ok
           THEN n_neurons' = n.val /\ pc' = "loop" /\ e' = e
           ELSE n_neurons' = n_neurons /\ pc' = "except"
                /\ e' = [at |-> "count", msg |-> n.msg]
    /\ hotkey_to_uid' = EmptyDict
    /\ uid_to_hotkey' = EmptyDict
    /\ incentives' = EmptyDict
    /\ emissions' = EmptyDict
    /\ stakes' = EmptyDict
    /\ is_validator' = EmptyDict
    /\ UNCHANGED <<metagraph, uid, stdout, exit, calls, run, io, replay, firstStdout>>

\* lines 25-72: one iteration of the loop
LoopIteration ==
    /\ pc = "loop"
    /\ uid < n_neurons
    /\ LET d == LoopBody(metagraph, uid,
                         [hotkey_to_uid |-> hotkey_to_uid, uid_to_hotkey |-> uid_to_hotkey,
                          incentives |-> incentives, emissions |-> emissions,
                          stakes |-> stakes, is_validator |-> is_validator,
                          raised |-> FALSE, msg |-> ""])
       IN  /\ hotkey_to_uid' = d.hotkey_to_uid
           /\ uid_to_hotkey' = d.uid_to_hotkey
           /\ incentives' = d.incentives
           /\ emissions' = d.emissions
           /\ stakes' = d.stakes
           /\ is_validator' = d.is_validator
           /\ IF d.raised
              THEN pc' = "except" /\ uid' = uid /\ e' = [at |-> "loop", msg |-> d.msg]
              ELSE pc' = "loop" /\ uid' = uid + 1 /\ e' = e
    /\ UNCHANGED <<metagraph, n_neurons, stdout, exit, calls, run, io, replay,
                   firstStdout>>

\* lines 74-84, once range(n_neurons) is exhausted
EmitSuccess ==
    /\ pc = "loop"
    /\ ~(uid < n_neurons)
    /\ LET result == SuccessResult(hotkey_to_uid, uid_to_hotkey, incentives, emissions,
                                   stakes, is_validator, n_neurons)
       IN  \E o \in PrintAnswers :
             /\ stdout' = Written(stdout, JsonDumps(result), o)
             /\ io' = [io EXCEPT !.prints = Append(@, o)]
             /\ IF o = "ok"
                THEN pc' = "done" /\ exit' = "0" /\ e' = e
                ELSE pc' = "except" /\ exit' = exit
                     /\ e' = [at |-> "print", msg |-> "[Errno 32] Broken pipe"]
    /\ UNCHANGED <<metagraph, dicts, n_neurons, uid, calls, run, replay, firstStdout>>

\* lines 86-97; an exception raised by the handler's own print ends the process
EmitFailure ==
    /\ pc = "except"
    /\ LET result == FailureResult(e)
       IN  \E o \in PrintAnswers :
             /\ stdout' = Written(stdout, JsonDumps(result), o)
             /\ io' = [io EXCEPT !.prints = Append(@, o)]
             /\ exit' = IF o = "ok" THEN "0" ELSE "1"
    /\ pc' = "done"
    /\ UNCHANGED <<metagraph, dicts, n_neurons, uid, e, calls, run, replay, firstStdout>>

Next ==
    \/ ImportBittensor
    \/ Connect
    \/ FetchMetagraph
    \/ Count
    \/ LoopIteration
    \/ EmitSuccess
    \/ EmitFailure

Spec == Init /\ [][Next]_vars

\* The caller invokes the exporter a second time against the same environment.
InvokeAgain ==
    /\ pc = "done"
    /\ run = 1
    /\ run' = 2
    /\ replay' = io
    /\ firstStdout' = stdout
    /\ pc' = "import"
    /\ metagraph' = NoMetagraph
    /\ hotkey_to_uid' = EmptyDict
    /\ uid_to_hotkey' = EmptyDict
    /\ incentives' = EmptyDict
    /\ emissions' = EmptyDict
    /\ stakes' = EmptyDict
    /\ is_validator' = EmptyDict
    /\ n_neurons' = 0
    /\ uid' = 0
    /\ e' = NoException
    /\ stdout' = << >>
    /\ exit' = "running"
    /\ calls' = << >>
    /\ io' = NoAnswers

NextTwice == Next \/ InvokeAgain

SpecTwice == Init /\ [][NextTwice]_vars

\* A process that can take a step does take it.
FairSpec == Spec /\ WF_vars(Next)

(***************************************************************************)
(* Properties.                                                             *)
(***************************************************************************)
\* The document the i-th write put on standard output.
Doc(i) == stdout[i].doc

IsSuccess(doc) == doc.error = << >>

AllEmpty(doc) ==
    /\ DOMAIN doc.hotkeyToUid = {}
    /\ DOMAIN doc.uidToHotkey = {}
    /\ DOMAIN doc.incentives = {}
    /\ DOMAIN doc.emissions = {}
    /\ DOMAIN doc.stakes = {}
    /\ DOMAIN doc.isValidator = {}
    /\ doc.totalNeurons = 0

\* The process ended normally having written exactly the one document, whole.
EmittedOne == pc = "done" /\ exit = "0" /\ Len(stdout) = 1 /\ stdout[1].complete

\* The first n hotkeys of the registry are pairwise distinct.
DistinctHotkeys(n) ==
    \A i, j \in (1..n) \cap DOMAIN metagraph.hotkeys :
        metagraph.hotkeys[i] = metagraph.hotkeys[j] => i = j

\* A metric's attribute names in the order the specification gives them.
Order(m) ==
    CASE m = "incentive" -> <<"incentive", "I">>
      [] m = "emission"  -> <<"emission", "E">>
      [] m = "stake"     -> <<"alpha_stake", "stake", "S">>
      [] m = "validator" -> <<"validator_permit">>

\* The first attribute of the metric that the registry has, "" when it has none.
FirstPresent(m) ==
    LET present == {i \in DOMAIN Order(m) : metagraph.fields[Order(m)[i]] # "absent"}
    IN  IF present = {} THEN ""
        ELSE Order(m)[CHOOSE i \in present : \A j \in present : i <= j]

\* The numeric value of a registry element, in thousandths.
Num(x) == IF x.kind = "int" THEN 1000 * x.val ELSE x.val

Native(m, x) ==
    IF m = "validator" THEN (IF x.kind = "str" THEN TRUE ELSE x.val # 0) ELSE Num(x)

Default(m) == IF m = "validator" THEN FALSE ELSE 0

MetricOf(doc, m) ==
    CASE m = "incentive" -> doc.incentives
      [] m = "emission"  -> doc.emissions
      [] m = "stake"     -> doc.stakes
      [] m = "validator" -> doc.isValidator

\* The array of the metric's first present attribute.
Source(m) == Arr(FirstPresent(m), metagraph.fields[FirstPresent(m)])

\* The metric's first present attribute has no usable element for uid u.
CannotSupply(m, u) ==
    /\ FirstPresent(m) # ""
    /\ \/ u + 1 \notin DOMAIN Source(m)
       \/ m # "validator" /\ Source(m)[u + 1].kind = "str"

\* C1: when an exception was raised while importing, connecting, fetching,
\* coercing the count or inside the loop, every document on standard output
\* has the six collections empty, totalNeurons = 0 and error equal to the
\* exception's message, and a run that ends normally has written exactly one.
C1_FailureSnapshotIsEmpty ==
    e.at \in {"import", "connect", "fetch", "count", "loop"} =>
        /\ \A i \in DOMAIN stdout : AllEmpty(Doc(i)) /\ Doc(i).error = <<e.msg>>
        /\ pc = "done" /\ exit = "0" => EmittedOne

\* An extraction failed at a uid > 0, after entries had been recorded.
C1_Witness ==
    /\ EmittedOne
    /\ e.at = "loop"
    /\ uid >= 1
    /\ DOMAIN incentives # {}
    /\ AllEmpty(Doc(1))

\* C2 as claimed: in every success snapshot the two mappings are exact
\* inverses, whatever the registry's hotkey list holds.
C2_ExactInverses ==
    \A i \in DOMAIN stdout : IsSuccess(Doc(i)) =>
        /\ \A h \in DOMAIN Doc(i).hotkeyToUid :
             /\ JsonKey(Doc(i).hotkeyToUid[h]) \in DOMAIN Doc(i).uidToHotkey
             /\ Doc(i).uidToHotkey[JsonKey(Doc(i).hotkeyToUid[h])] = h
        /\ \A k \in DOMAIN Doc(i).uidToHotkey :
             /\ Doc(i).uidToHotkey[k] \in DOMAIN Doc(i).hotkeyToUid
             /\ JsonKey(Doc(i).hotkeyToUid[Doc(i).uidToHotkey[k]]) = k

\* C2 amended: in every success snapshot each hotkey of hotkeyToUid maps to a
\* uid that uidToHotkey maps back to it; and when the first totalNeurons
\* hotkeys of the registry are pairwise distinct, each uid of uidToHotkey maps
\* to a hotkey that hotkeyToUid maps back to it.
C2_InversesWhenDistinct ==
    \A i \in DOMAIN stdout : IsSuccess(Doc(i)) =>
        /\ \A h \in DOMAIN Doc(i).hotkeyToUid :
             /\ JsonKey(Doc(i).hotkeyToUid[h]) \in DOMAIN Doc(i).uidToHotkey
             /\ Doc(i).uidToHotkey[JsonKey(Doc(i).hotkeyToUid[h])] = h
        /\ DistinctHotkeys(Doc(i).totalNeurons) =>
             \A k \in DOMAIN Doc(i).uidToHotkey :
               /\ Doc(i).uidToHotkey[k] \in DOMAIN Doc(i).hotkeyToUid
               /\ JsonKey(Doc(i).hotkeyToUid[Doc(i).uidToHotkey[k]]) = k

\* A success snapshot of MaxN participants with distinct hotkeys.
C2_Witness ==
    /\ EmittedOne
    /\ IsSuccess(Doc(1))
    /\ Doc(1).totalNeurons = MaxN
    /\ DistinctHotkeys(MaxN)
    /\ Cardinality(DOMAIN Doc(1).uidToHotkey) = MaxN

\* C3 as claimed: in every success snapshot totalNeurons is the number of
\* keys of hotkeyToUid, for every count and hotkey list.
C3_TotalIsKeyCount ==
    \A i \in DOMAIN stdout : IsSuccess(Doc(i)) =>
        Doc(i).totalNeurons = Cardinality(DOMAIN Doc(i).hotkeyToUid)

\* C3 amended: in every success snapshot whose count n is >= 0 and whose
\* first n registry hotkeys are pairwise distinct, totalNeurons is the number
\* of keys of hotkeyToUid.
C3_TotalIsKeyCountWhenDistinct ==
    \A i \in DOMAIN stdout :
        (/\ IsSuccess(Doc(i))
         /\ Doc(i).totalNeurons >= 0
         /\ DistinctHotkeys(Doc(i).totalNeurons)) =>
        Doc(i).totalNeurons = Cardinality(DOMAIN Doc(i).hotkeyToUid)

\* A success snapshot of a registry that lists more hotkeys than it counts.
C3_Witness ==
    /\ EmittedOne
    /\ IsSuccess(Doc(1))
    /\ Doc(1).totalNeurons = MaxN - 1
    /\ Len(metagraph.hotkeys) = MaxN
    /\ DistinctHotkeys(MaxN)

\* C4 as claimed, for the runs that end with status 0 (the last print
\* returned): whichever step raised, exactly one snapshot is on standard
\* output when the process ends.
C4_ExactlyOneSnapshot == (pc = "done" /\ exit = "0") => Len(stdout) = 1

Calls(op) == Cardinality({i \in DOMAIN calls : calls[i][1] = op})

C7_Step ==
    /\ stdout = << >>
    /\ Calls("Subtensor")' <= 1
    /\ Calls("metagraph")' <= 1
    /\ e.at # "none" => pc' = "done"
    /\ (pc' = "done" /\ exit' = "0") => Len(stdout') = 1 /\ stdout'[1].complete

\* C7 as claimed: every step is taken before any snapshot is on standard
\* output, the connection and the fetch are each made at most once, an
\* exception is followed by the emit alone, and the step that ends a run
\* with status 0 is the one emit that writes the one snapshot.
C7_OneTransitionToDone == [][C7_Step]_vars

\* C8: in every success snapshot whose first present incentive attribute has
\* all its elements in [0, 1], every incentive lies in [0, 1], and an element
\* that is 0 or 1 is emitted as 0 or 1.
C8_UnitIntervalPreserved ==
    \A i \in DOMAIN stdout :
        (/\ IsSuccess(Doc(i))
         /\ FirstPresent("incentive") # ""
         /\ \A k \in DOMAIN Source("incentive") :
              /\ Source("incentive")[k].kind # "str"
              /\ Num(Source("incentive")[k]) \in 0..1000) =>
        \A h \in DOMAIN Doc(i).incentives :
            /\ Doc(i).incentives[h] \in 0..1000
            /\ h \in DOMAIN Doc(i).hotkeyToUid
            /\ Doc(i).hotkeyToUid[h] + 1 \in DOMAIN Source("incentive")
            /\ Num(Source("incentive")[Doc(i).hotkeyToUid[h] + 1]) \in {0, 1000} =>
                 Doc(i).incentives[h] = Num(Source("incentive")[Doc(i).hotkeyToUid[h] + 1])

\* A success snapshot that holds both boundary values.
C8_Witness ==
    /\ EmittedOne
    /\ IsSuccess(Doc(1))
    /\ FirstPresent("incentive") # ""
    /\ {Doc(1).incentives[h] : h \in DOMAIN Doc(1).incentives} = {0, 1000}

C9_Inv ==
    /\ pc = "loop" =>
         /\ DOMAIN uid_to_hotkey = 0..(uid - 1)
         /\ DOMAIN hotkey_to_uid = {metagraph.hotkeys[u + 1] : u \in 0..(uid - 1)}
         /\ DOMAIN incentives = DOMAIN hotkey_to_uid
         /\ DOMAIN emissions = DOMAIN hotkey_to_uid
         /\ DOMAIN stakes = DOMAIN hotkey_to_uid
         /\ DOMAIN is_validator = DOMAIN hotkey_to_uid
         /\ uid = 0 \/ uid <= n_neurons
    /\ \A i \in DOMAIN stdout : IsSuccess(Doc(i)) =>
         /\ DOMAIN Doc(i).incentives = DOMAIN Doc(i).hotkeyToUid
         /\ DOMAIN Doc(i).emissions = DOMAIN Doc(i).hotkeyToUid
         /\ DOMAIN Doc(i).stakes = DOMAIN Doc(i).hotkeyToUid
         /\ DOMAIN Doc(i).isValidator = DOMAIN Doc(i).hotkeyToUid
         /\ DOMAIN Doc(i).uidToHotkey =
              {JsonKey(u) : u \in 0..(Doc(i).totalNeurons - 1)}

C9_Step ==
    (pc = "loop" /\ pc' = "loop") =>
        /\ uid' = uid + 1
        /\ uid \notin DOMAIN uid_to_hotkey
        /\ DOMAIN uid_to_hotkey' = DOMAIN uid_to_hotkey \cup {uid}

\* C9: between iterations of the loop, and in every success snapshot, the
\* four metric dicts have the key set of hotkey_to_uid and uid_to_hotkey has
\* the keys 0..k-1 for the k uids processed; an iteration processes the uid
\* that follows the last one processed.
C9_KeySetsAgree == []C9_Inv /\ [][C9_Step]_vars

\* MaxN uids were processed for a registry that repeats one hotkey.
C9_Witness ==
    /\ pc = "loop"
    /\ uid = MaxN
    /\ Cardinality(DOMAIN hotkey_to_uid) = 1
    /\ DOMAIN incentives = DOMAIN hotkey_to_uid

\* The registry cannot supply the hotkey or some metric of a uid < n_neurons.
Unsuppliable ==
    \E u \in 0..(n_neurons - 1) :
        \/ u + 1 \notin DOMAIN metagraph.hotkeys
        \/ \E m \in Metrics : CannotSupply(m, u)

\* C10: a run whose registry cannot supply the hotkey, or a metric from its
\* first present attribute, for some uid < n ends on the failure path: every
\* document written has the collections empty, totalNeurons = 0 and an error.
C10_NoFallbackOnFailure ==
    (pc = "done" /\ Unsuppliable) =>
        /\ e.at = "loop"
        /\ \A i \in DOMAIN stdout : AllEmpty(Doc(i)) /\ ~IsSuccess(Doc(i))
        /\ exit = "0" => EmittedOne

\* incentive is too short while I holds a value for every uid.
C10_Witness ==
    /\ EmittedOne
    /\ metagraph.fields["incentive"] = "short"
    /\ metagraph.fields["I"] = "full"
    /\ n_neurons = MaxN
    /\ Len(metagraph.hotkeys) = MaxN
    /\ uid = MaxN - 1
    /\ AllEmpty(Doc(1))
    /\ ~IsSuccess(Doc(1))

====
